---- MODULE Spec2Model ----
(***************************************************************************)
(* dban: a key-value table accessor (kv.go) and a cursor-based batch       *)
(* streamer that keeps its page cursor in the key-value table.             *)
(*                                                                         *)
(* FormList opens no transaction itself: a call runs either with each      *)
(* statement committed on its own, or inside a transaction of its caller   *)
(* that is committed after the call returns.  A FOR UPDATE row lock lasts  *)
(* until the transaction that took it ends; a row that does not exist      *)
(* cannot be locked.                                                       *)
(*                                                                         *)
(* Strings are sequences of one-character strings.  64-bit integers are    *)
(* canonical big-endian sequences of decimal digits (no leading zero,      *)
(* zero is <<0>>), so that the 64-bit limits are exact.                    *)
(***************************************************************************)
EXTENDS Integers, Sequences, FiniteSets, TLC

\* ------------------------------------------------------------------ bounds
MaxItems == 3        \* the source table holds at most this many rows
MaxFetches == 3      \* a call whose fetch count reaches this stops recursing

\* --------------------------------------------------------------- constants
defaultBatchSize == 15

Callers == {"c1", "c2"}
Keys == {"k1", "k2"}
NoCaller == "none"

\* ------------------------------------------------- decimal digit sequences
DigitChars == <<"0", "1", "2", "3", "4", "5", "6", "7", "8", "9">>

Zero == <<0>>
One == <<1>>
MaxInt64 == <<9,2,2,3,3,7,2,0,3,6,8,5,4,7,7,5,8,0,7>>
Cutoff63 == <<9,2,2,3,3,7,2,0,3,6,8,5,4,7,7,5,8,0,8>>
MaxUint64 == <<1,8,4,4,6,7,4,4,0,7,3,7,0,9,5,5,1,6,1,5>>

RECURSIVE Strip(_)
Strip(d) ==
    IF Len(d) > 1 /\ d[1] = 0 THEN Strip(Tail(d)) ELSE d

RECURSIVE LexLess(_, _)
LexLess(a, b) ==
    IF a = <<>> THEN FALSE
    ELSE IF a[1] # b[1] THEN a[1] < b[1]
    ELSE LexLess(Tail(a), Tail(b))

\* a < b for canonical digit sequences
Less(a, b) ==
    IF Len(a) # Len(b) THEN Len(a) < Len(b) ELSE LexLess(a, b)

RECURSIVE Inc(_)
Inc(d) ==
    IF d = <<>> THEN <<1>>
    ELSE IF d[Len(d)] < 9
         THEN SubSeq(d, 1, Len(d) - 1) \o <<d[Len(d)] + 1>>
         ELSE Inc(SubSeq(d, 1, Len(d) - 1)) \o <<0>>

\* pageNumber+1 on a uint64
AddOneU64(n) == IF n = MaxUint64 THEN Zero ELSE Inc(n)

RECURSIVE ToNat(_)
ToNat(d) ==
    IF d = <<>> THEN 0 ELSE 10 * ToNat(SubSeq(d, 1, Len(d) - 1)) + d[Len(d)]

RECURSIVE FromNat(_)
FromNat(n) ==
    IF n < 10 THEN <<n>> ELSE FromNat(n \div 10) \o <<n % 10>>

\* ------------------------------------------------------------------ strconv
IsDigitChar(ch) == \E i \in 1..10 : DigitChars[i] = ch
DigitOf(ch) == (CHOOSE i \in 1..10 : DigitChars[i] = ch) - 1

\* strconv.FormatUint(n, 10)
FormatUint(n) == [i \in 1..Len(n) |-> DigitChars[n[i] + 1]]

\* strconv.ParseUint(s, 10, 64)
ParseUint(s) ==
    IF s = <<>> THEN [val |-> Zero, err |-> "syntax"]
    ELSE IF \E i \in 1..Len(s) : ~IsDigitChar(s[i])
         THEN [val |-> Zero, err |-> "syntax"]
    ELSE LET v == Strip([i \in 1..Len(s) |-> DigitOf(s[i])])
         IN  IF Less(MaxUint64, v)
             THEN [val |-> MaxUint64, err |-> "range"]
             ELSE [val |-> v, err |-> "nil"]

\* strconv.ParseInt(s, 10, 64): a signed value is [neg, mag]
ParseInt(s) ==
    IF s = <<>> THEN [neg |-> FALSE, mag |-> Zero, err |-> "syntax"]
    ELSE LET neg == s[1] = "-"
             rest == IF s[1] \in {"+", "-"} THEN Tail(s) ELSE s
             un == ParseUint(rest)
         IN  IF un.err = "syntax"
             THEN [neg |-> FALSE, mag |-> Zero, err |-> "syntax"]
             ELSE IF un.err = "range"
             THEN [neg |-> neg,
                   mag |-> IF neg THEN Cutoff63 ELSE MaxInt64,
                   err |-> "range"]
             ELSE IF ~neg /\ ~Less(un.val, Cutoff63)
             THEN [neg |-> FALSE, mag |-> MaxInt64, err |-> "range"]
             ELSE IF neg /\ Less(Cutoff63, un.val)
             THEN [neg |-> TRUE, mag |-> Cutoff63, err |-> "range"]
             ELSE [neg |-> neg /\ un.val # Zero, mag |-> un.val, err |-> "nil"]

\* ------------------------------------------------------------------- errors
\* An error is the chain of its messages, outermost first; <<>> is nil.
Nil == <<>>
Wrap(e, msg) == <<msg>> \o e

\* ------------------------------------------------------------------- state
VARIABLES
    store,       \* committed rows of table key_value: key -> value
    lock,        \* row lock of each key: the caller whose transaction holds it
    txw,         \* per caller: rows written in its open transaction
    table,       \* rows of the paginated source
    streamers,   \* per caller: the streamer struct it calls
    pc,          \* per caller: position in the running call
    op,          \* per caller: the method being called
    inTx,        \* per caller: the call runs inside a database transaction
    pageNumber,  \* per caller: FormList's pageNumber
    entities,    \* per caller: FormList's entities
    result,      \* per caller: the list the call returned
    err,         \* per caller: the error the call returned
    fetches,     \* per caller: Select calls made by the running call
    upserts,     \* per caller: Upsert calls made by the running call
    idx,         \* per caller: FormListAndProcess's loop position
    processed    \* per caller: elements fn was invoked on, in order

vars == <<store, lock, txw, table, streamers, pc, op, inTx, pageNumber,
          entities, result, err, fetches, upserts, idx, processed>>

locals == <<pageNumber, entities, result, err, fetches, upserts, idx, processed>>

Ops == {"FormList", "FormListAndProcess", "GetCurrentPage", "Select"}

\* ------------------------------------------------------------ source table
Rows(n) == [i \in 1..n |-> i]

Min(a, b) == IF a < b THEN a ELSE b

\* Streamable.SelectWithPageParams over a table read by limit and offset
SelectWithPageParams(rows, pp) ==
    IF Len(pp.PageNumber) > 2 THEN <<>>
    ELSE LET offset == ToNat(pp.PageNumber) * pp.Limit
         IN  SubSeq(rows, offset + 1, Min(offset + pp.Limit, Len(rows)))

\* ---------------------------------------------------------------- streamer
\* NewStreamer: a nil BatchSize (<<>>) becomes defaultBatchSize and a nil Ctx
\* becomes context.Background(), which is never cancelled. A context given by
\* the caller is "live" until its cancel function runs, "cancelled" after.
NewStreamer(initParams) ==
    [KeyValueKey |-> initParams.KeyValueKey,
     BatchSize |-> IF initParams.BatchSize = <<>>
                   THEN defaultBatchSize
                   ELSE initParams.BatchSize[1],
     Ctx |-> IF initParams.Ctx = <<>>
             THEN "background"
             ELSE initParams.Ctx[1]]

\* streamer.Select's argument to the source
PageParams(s, p) == [Limit |-> s.BatchSize, PageNumber |-> p]

\* ---------------------------------------------------------------- kv store
\* rows a caller's statements see: committed rows and its own writes
View(c) == [k \in DOMAIN store \cup DOMAIN txw[c] |->
               IF k \in DOMAIN txw[c] THEN txw[c][k] ELSE store[k]]

\* q.db.Get(&value, statement)
DbGet(rows, key, fault) ==
    IF fault THEN [value |-> [Key |-> <<>>, Value |-> <<>>], err |-> <<"db">>]
    ELSE IF key \notin DOMAIN rows
    THEN [value |-> [Key |-> <<>>, Value |-> <<>>], err |-> <<"sql.ErrNoRows">>]
    ELSE [value |-> [Key |-> key, Value |-> rows[key]], err |-> Nil]

\* get turning every error of the query into an absent result
get_SwallowsFailure(rows, key, fault) ==
    LET r == DbGet(rows, key, fault)
    IN  IF r.err # Nil
        THEN [kv |-> <<>>, err |-> Nil]
        ELSE [kv |-> <<r.value>>, err |-> r.err]

\* keyValueQ.get: a *KeyValue is <<>> (nil) or a one-element sequence
get(rows, key, fault) ==
    LET r == DbGet(rows, key, fault)
    IN  IF r.err = <<"sql.ErrNoRows">>
        THEN [kv |-> <<>>, err |-> Nil]
        ELSE [kv |-> <<r.value>>, err |-> r.err]

LockingGet(rows, key, fault) == get(rows, key, fault)

Get(rows, key, fault) == get(rows, key, fault)

\* MustGet panicking on a nil value too
MustGet_PanicsOnAbsent(rows, key, fault) ==
    LET r == Get(rows, key, fault)
    IN  IF r.err # Nil \/ r.kv = <<>>
        THEN [kv |-> <<>>, panic |-> Wrap(r.err, "failed to get value by key")]
        ELSE [kv |-> r.kv, panic |-> Nil]

\* keyValueQ.MustGet: the value returned, or the value it panics with
MustGet(rows, key, fault) ==
    LET r == Get(rows, key, fault)
    IN  IF r.err # Nil
        THEN [kv |-> <<>>, panic |-> Wrap(r.err, "failed to get value by key")]
        ELSE [kv |-> r.kv, panic |-> Nil]

\* keyValueQ.MustLockingGet
MustLockingGet(rows, key, fault) ==
    LET r == LockingGet(rows, key, fault)
    IN  IF r.err # Nil
        THEN [kv |-> <<>>,
              panic |-> Wrap(r.err, "failed to locking get value by key")]
        ELSE [kv |-> r.kv, panic |-> Nil]

\* an upsert whose update is not restricted to the conflicting row
UpsertRows_EveryRow(rows, kv) ==
    [k \in DOMAIN rows \cup {kv.Key} |-> kv.Value]

\* an INSERT ... ON CONFLICT (key) DO NOTHING
UpsertRows_DoNothing(rows, kv) ==
    [k \in DOMAIN rows \cup {kv.Key} |->
        IF k \in DOMAIN rows THEN rows[k] ELSE kv.Value]

\* rows after INSERT ... ON CONFLICT (key) DO UPDATE SET value = EXCLUDED.value
UpsertRows(rows, kv) ==
    [k \in DOMAIN rows \cup {kv.Key} |->
        IF k = kv.Key THEN kv.Value ELSE rows[k]]

\* a statement on row key by caller c waits while another transaction holds it
Free(c, key) == lock[key] \in {NoCaller, c}

\* GetCurrentPage without its test for a negative page
GetCurrentPageOf_NoNegativeCheck(key, r) ==
    IF r.err # Nil
    THEN [page |-> Zero, err |-> Wrap(r.err, "failed to get current cursor value")]
    ELSE LET pageKV == IF r.kv = <<>>
                       THEN [Key |-> key, Value |-> <<"0">>]
                       ELSE r.kv[1]
             page == ParseInt(pageKV.Value)
         IN  IF page.err # "nil"
             THEN [page |-> Zero, err |-> <<"failed to parse cursor", page.err>>]
             ELSE [page |-> page.mag, err |-> Nil]

\* streamer.GetCurrentPage, given what LockingGet returned
GetCurrentPageOf(key, r) ==
    IF r.err # Nil
    THEN [page |-> Zero, err |-> Wrap(r.err, "failed to get current cursor value")]
    ELSE LET pageKV == IF r.kv = <<>>
                       THEN [Key |-> key, Value |-> <<"0">>]
                       ELSE r.kv[1]
             page == ParseInt(pageKV.Value)
         IN  IF page.err # "nil"
             THEN [page |-> Zero, err |-> <<"failed to parse cursor", page.err>>]
             ELSE IF page.neg
             THEN [page |-> Zero, err |-> <<"cursor cannot be negative">>]
             ELSE [page |-> page.mag, err |-> Nil]

\* the first-page test taking page 1 for the first page
NoEntities_PageOne(ents, p) == Len(ents) = 0 /\ p = One

\* the first-page test without the page number
NoEntities_AnyPage(ents, p) == Len(ents) = 0

\* FormList: the entities list is empty and we are on the first page
NoEntities(ents, p) == Len(ents) = 0 /\ p = Zero

\* the cursor value with a reset to "1"
CursorValue_ResetToOne(ents, p) ==
    IF Len(ents) = 0 THEN <<"1">> ELSE FormatUint(AddOneU64(p))

\* the cursor value without the increment
CursorValue_NoIncrement(ents, p) ==
    IF Len(ents) = 0 THEN <<"0">> ELSE FormatUint(p)

\* FormList: the value it upserts for the entities it fetched from page p
CursorValue(ents, p) ==
    IF Len(ents) = 0 THEN <<"0">> ELSE FormatUint(AddOneU64(p))

\* FormList: the message wrapping a failed Upsert
UpsertFailure(ents) ==
    IF Len(ents) = 0
    THEN "failed to upsert last page"
    ELSE "failed to update last processed entities"

\* ------------------------------------------------------------------ actions
\* the running call returns (res, e) to the caller
Returned(c, res, e) ==
    /\ pc' = [pc EXCEPT ![c] = "returned"]
    /\ result' = [result EXCEPT ![c] = res]
    /\ err' = [err EXCEPT ![c] = e]
    /\ UNCHANGED idx

\* FormList returning the fetched entities along with an error
FormListReturns_KeepsPage(c, res, e) ==
    IF op[c] # "FormListAndProcess"
    THEN Returned(c, IF e # Nil THEN entities[c] ELSE res, e)
    ELSE IF e # Nil
    THEN Returned(c, entities[c], Wrap(e, "failed to form a list of entities"))
    ELSE IF res = <<>> THEN Returned(c, <<>>, Nil)
    ELSE /\ pc' = [pc EXCEPT ![c] = "fn"]
         /\ result' = [result EXCEPT ![c] = res]
         /\ idx' = [idx EXCEPT ![c] = 1]
         /\ UNCHANGED err

\* FormList returns (res, e): to the caller, or to FormListAndProcess
FormListReturns(c, res, e) ==
    IF op[c] # "FormListAndProcess" THEN Returned(c, res, e)
    ELSE IF e # Nil
    THEN Returned(c, <<>>, Wrap(e, "failed to form a list of entities"))
    ELSE IF res = <<>> THEN Returned(c, <<>>, Nil)
    ELSE /\ pc' = [pc EXCEPT ![c] = "fn"]
         /\ result' = [result EXCEPT ![c] = res]
         /\ idx' = [idx EXCEPT ![c] = 1]
         /\ UNCHANGED err

PageArgs == {Zero, One}

\* a caller starts a call of one of the streamer's methods
Begin(c, Methods, TxModes) ==
    /\ pc[c] \in {"idle", "returned"}
    /\ ~inTx[c]
    /\ \E o \in Methods, tx \in TxModes :
          \E arg \in IF o = "Select" THEN PageArgs ELSE {pageNumber[c]} :
             /\ op' = [op EXCEPT ![c] = o]
             /\ inTx' = [inTx EXCEPT ![c] = tx]
             /\ pc' = [pc EXCEPT ![c] = IF o = "Select" THEN "Select" ELSE "LockingGet"]
             /\ pageNumber' = [pageNumber EXCEPT ![c] = arg]
    /\ entities' = [entities EXCEPT ![c] = <<>>]
    /\ result' = [result EXCEPT ![c] = <<>>]
    /\ err' = [err EXCEPT ![c] = Nil]
    /\ fetches' = [fetches EXCEPT ![c] = 0]
    /\ upserts' = [upserts EXCEPT ![c] = 0]
    /\ idx' = [idx EXCEPT ![c] = 0]
    /\ processed' = [processed EXCEPT ![c] = <<>>]
    /\ UNCHANGED <<store, lock, txw, table, streamers>>

\* GetCurrentPage creating the cursor row with "0" when it finds none
GetCurrentPage_InsertsDefault(c, Faults) ==
    /\ pc[c] = "LockingGet"
    /\ LET key == streamers[c].KeyValueKey
       IN  /\ key \in DOMAIN store => Free(c, key)
           /\ \E fault \in Faults :
                 LET r == LockingGet(View(c), key, fault)
                     g == GetCurrentPageOf(key, r)
                     kv == [Key |-> key, Value |-> <<"0">>]
                 IN  /\ lock' = IF inTx[c] /\ ~fault /\ key \in DOMAIN View(c)
                                THEN [lock EXCEPT ![key] = c]
                                ELSE lock
                     /\ IF r.err = Nil /\ r.kv = <<>>
                        THEN IF inTx[c]
                             THEN /\ txw' = [txw EXCEPT ![c] = UpsertRows(@, kv)]
                                  /\ UNCHANGED store
                             ELSE /\ store' = UpsertRows(store, kv)
                                  /\ UNCHANGED txw
                        ELSE UNCHANGED <<store, txw>>
                     /\ pageNumber' = [pageNumber EXCEPT ![c] = g.page]
                     /\ IF op[c] = "GetCurrentPage" THEN Returned(c, <<>>, g.err)
                        ELSE IF g.err # Nil
                        THEN FormListReturns(c, <<>>,
                                 Wrap(g.err, "failed to get current page number"))
                        ELSE /\ pc' = [pc EXCEPT ![c] = "Select"]
                             /\ UNCHANGED <<result, err, idx>>
    /\ UNCHANGED <<table, streamers, op, inTx, entities,
                   fetches, upserts, processed>>

\* GetCurrentPage answering from the page number the instance resolved in an
\* earlier call, reading the store only when it has none
GetCurrentPage_Cached(c, Faults) ==
    /\ pc[c] = "LockingGet"
    /\ LET key == streamers[c].KeyValueKey
       IN  /\ key \in DOMAIN store => Free(c, key)
           /\ \E fault \in Faults :
                 LET g == IF pageNumber[c] # <<>>
                          THEN [page |-> pageNumber[c], err |-> Nil]
                          ELSE GetCurrentPageOf(key, LockingGet(View(c), key, fault))
                 IN  /\ lock' = IF inTx[c] /\ ~fault /\ key \in DOMAIN View(c)
                                THEN [lock EXCEPT ![key] = c]
                                ELSE lock
                     /\ pageNumber' = [pageNumber EXCEPT ![c] = g.page]
                     /\ IF op[c] = "GetCurrentPage" THEN Returned(c, <<>>, g.err)
                        ELSE IF g.err # Nil
                        THEN FormListReturns(c, <<>>,
                                 Wrap(g.err, "failed to get current page number"))
                        ELSE /\ pc' = [pc EXCEPT ![c] = "Select"]
                             /\ UNCHANGED <<result, err, idx>>
    /\ UNCHANGED <<store, txw, table, streamers, op, inTx, entities,
                   fetches, upserts, processed>>

\* GetCurrentPage: SELECT ... FOR UPDATE of the cursor row, then parse
GetCurrentPage(c, Faults) ==
    /\ pc[c] = "LockingGet"
    /\ LET key == streamers[c].KeyValueKey
       IN  /\ key \in DOMAIN store => Free(c, key)
           /\ \E fault \in Faults :
                 LET g == GetCurrentPageOf(key, LockingGet(View(c), key, fault))
                 IN  /\ lock' = IF inTx[c] /\ ~fault /\ key \in DOMAIN View(c)
                                THEN [lock EXCEPT ![key] = c]
                                ELSE lock
                     /\ pageNumber' = [pageNumber EXCEPT ![c] = g.page]
                     /\ IF op[c] = "GetCurrentPage" THEN Returned(c, <<>>, g.err)
                        ELSE IF g.err # Nil
                        THEN FormListReturns(c, <<>>,
                                 Wrap(g.err, "failed to get current page number"))
                        ELSE /\ pc' = [pc EXCEPT ![c] = "Select"]
                             /\ UNCHANGED <<result, err, idx>>
    /\ UNCHANGED <<store, txw, table, streamers, op, inTx, entities,
                   fetches, upserts, processed>>

\* FormList taking a failed Select for an empty page
Select_IgnoresFailure(c, Faults) ==
    /\ pc[c] = "Select"
    /\ fetches[c] < MaxFetches
    /\ \E fault \in Faults :
          LET ents == IF fault THEN <<>>
                      ELSE SelectWithPageParams(table,
                               PageParams(streamers[c], pageNumber[c]))
              e == IF fault THEN <<"source">> ELSE Nil
          IN  /\ entities' = [entities EXCEPT ![c] = ents]
              /\ fetches' = [fetches EXCEPT ![c] = @ + 1]
              /\ IF op[c] = "Select" THEN Returned(c, ents, e)
                 ELSE IF NoEntities(ents, pageNumber[c])
                 THEN FormListReturns(c, <<>>, Nil)
                 ELSE /\ pc' = [pc EXCEPT ![c] = "Upsert"]
                      /\ UNCHANGED <<result, err, idx>>
    /\ UNCHANGED <<store, lock, txw, table, streamers, op, inTx, pageNumber,
                   upserts, processed>>

\* Select, and FormList's test for a source with no entities
Select(c, Faults) ==
    /\ pc[c] = "Select"
    /\ fetches[c] < MaxFetches
    /\ \E fault \in Faults :
          LET ents == IF fault THEN <<>>
                      ELSE SelectWithPageParams(table,
                               PageParams(streamers[c], pageNumber[c]))
              e == IF fault THEN <<"source">> ELSE Nil
          IN  /\ entities' = [entities EXCEPT ![c] = ents]
              /\ fetches' = [fetches EXCEPT ![c] = @ + 1]
              /\ IF op[c] = "Select" THEN Returned(c, ents, e)
                 ELSE IF e # Nil
                 THEN FormListReturns(c, <<>>, Wrap(e, "failed to select entities"))
                 ELSE IF NoEntities(ents, pageNumber[c])
                 THEN FormListReturns(c, <<>>, Nil)
                 ELSE /\ pc' = [pc EXCEPT ![c] = "Upsert"]
                      /\ UNCHANGED <<result, err, idx>>
    /\ UNCHANGED <<store, lock, txw, table, streamers, op, inTx, pageNumber,
                   upserts, processed>>

\* FormList's Upsert: reset to "0" and restart, or advance and return
Upsert(c, Faults) ==
    /\ pc[c] = "Upsert"
    /\ LET key == streamers[c].KeyValueKey
           kv == [Key |-> key, Value |-> CursorValue(entities[c], pageNumber[c])]
       IN  /\ Free(c, key)
           /\ \E fault \in Faults :
                 IF fault
                 THEN /\ FormListReturns(c, <<>>,
                            Wrap(<<"db">>, UpsertFailure(entities[c])))
                      /\ UNCHANGED <<store, txw, lock>>
                 ELSE /\ IF inTx[c]
                         THEN /\ txw' = [txw EXCEPT ![c] = UpsertRows(@, kv)]
                              /\ lock' = [lock EXCEPT ![key] = c]
                              /\ UNCHANGED store
                         ELSE /\ store' = UpsertRows(store, kv)
                              /\ UNCHANGED <<txw, lock>>
                      /\ IF Len(entities[c]) = 0
                         THEN /\ pc' = [pc EXCEPT ![c] = "LockingGet"]
                              /\ UNCHANGED <<result, err, idx>>
                         ELSE FormListReturns(c, entities[c], Nil)
    /\ upserts' = [upserts EXCEPT ![c] = @ + 1]
    /\ UNCHANGED <<table, streamers, op, inTx, pageNumber, entities,
                   fetches, processed>>

\* the loop going on to the next element after fn failed
fn_ContinueAfterFailure(c) ==
    /\ pc[c] = "fn"
    /\ processed' = [processed EXCEPT ![c] = Append(@, result[c][idx[c]])]
    /\ \E ok \in BOOLEAN :
          /\ err' = [err EXCEPT ![c] =
                        IF ok THEN @ ELSE <<"failed to process an entity", "fn">>]
          /\ idx' = [idx EXCEPT ![c] = @ + 1]
          /\ pc' = [pc EXCEPT ![c] =
                       IF idx[c] = Len(result[c]) THEN "returned" ELSE "fn"]
    /\ UNCHANGED <<store, lock, txw, table, streamers, op, inTx, pageNumber,
                   entities, result, fetches, upserts>>

\* the loop writing the page number back when fn fails
fn_UndoAdvance(c) ==
    /\ pc[c] = "fn"
    /\ processed' = [processed EXCEPT ![c] = Append(@, result[c][idx[c]])]
    /\ \E ok \in BOOLEAN :
          IF ~ok
          THEN /\ err' = [err EXCEPT ![c] = <<"failed to process an entity", "fn">>]
               /\ pc' = [pc EXCEPT ![c] = "returned"]
               /\ LET kv == [Key |-> streamers[c].KeyValueKey,
                             Value |-> FormatUint(pageNumber[c])]
                  IN  IF inTx[c]
                      THEN /\ txw' = [txw EXCEPT ![c] = UpsertRows(@, kv)]
                           /\ UNCHANGED store
                      ELSE /\ store' = UpsertRows(store, kv)
                           /\ UNCHANGED txw
               /\ UNCHANGED idx
          ELSE /\ idx' = [idx EXCEPT ![c] = @ + 1]
               /\ pc' = [pc EXCEPT ![c] =
                            IF idx[c] = Len(result[c]) THEN "returned" ELSE "fn"]
               /\ UNCHANGED <<err, store, txw>>
    /\ UNCHANGED <<lock, table, streamers, op, inTx, pageNumber,
                   entities, result, fetches, upserts>>

\* FormListAndProcess: one iteration of the loop over entities
fn(c) ==
    /\ pc[c] = "fn"
    /\ processed' = [processed EXCEPT ![c] = Append(@, result[c][idx[c]])]
    /\ \E ok \in BOOLEAN :
          IF ~ok
          THEN /\ err' = [err EXCEPT ![c] = <<"failed to process an entity", "fn">>]
               /\ pc' = [pc EXCEPT ![c] = "returned"]
               /\ UNCHANGED idx
          ELSE /\ idx' = [idx EXCEPT ![c] = @ + 1]
               /\ pc' = [pc EXCEPT ![c] =
                            IF idx[c] = Len(result[c]) THEN "returned" ELSE "fn"]
               /\ UNCHANGED err
    /\ UNCHANGED <<store, lock, txw, table, streamers, op, inTx, pageNumber,
                   entities, result, fetches, upserts>>

\* the transaction around a returned call ends: its writes become visible
\* and its row locks are released
Commit(c) ==
    /\ pc[c] = "returned"
    /\ inTx[c]
    /\ store' = View(c)
    /\ txw' = [txw EXCEPT ![c] = <<>>]
    /\ lock' = [k \in Keys |-> IF lock[k] = c THEN NoCaller ELSE lock[k]]
    /\ inTx' = [inTx EXCEPT ![c] = FALSE]
    /\ UNCHANGED <<table, streamers, pc, op, locals>>

\* values of the rows a client of the key-value store writes
Values == {<<"1">>, <<"5">>}

\* a client calls Get or LockingGet outside a transaction
CallGet(c, Faults) ==
    /\ pc[c] \in {"idle", "returned"}
    /\ ~inTx[c]
    /\ \E key \in Keys, forUpdate \in BOOLEAN, fault \in Faults :
          LET r == IF forUpdate THEN LockingGet(store, key, fault)
                                ELSE Get(store, key, fault)
          IN  /\ (forUpdate /\ key \in DOMAIN store) => Free(c, key)
              /\ op' = [op EXCEPT ![c] = IF forUpdate THEN "LockingGet" ELSE "Get"]
              /\ result' = [result EXCEPT ![c] = r.kv]
              /\ err' = [err EXCEPT ![c] = r.err]
    /\ pc' = [pc EXCEPT ![c] = "returned"]
    /\ UNCHANGED <<store, lock, txw, table, streamers, inTx, pageNumber,
                   entities, fetches, upserts, idx, processed>>

\* a client calls MustGet or MustLockingGet outside a transaction
CallMustGet(c, Faults) ==
    /\ pc[c] \in {"idle", "returned"}
    /\ ~inTx[c]
    /\ \E key \in Keys, forUpdate \in BOOLEAN, fault \in Faults :
          LET r == IF forUpdate THEN MustLockingGet(store, key, fault)
                                ELSE MustGet(store, key, fault)
          IN  /\ (forUpdate /\ key \in DOMAIN store) => Free(c, key)
              /\ op' = [op EXCEPT ![c] =
                           IF forUpdate THEN "MustLockingGet" ELSE "MustGet"]
              /\ result' = [result EXCEPT ![c] = r.kv]
              /\ err' = [err EXCEPT ![c] = r.panic]
              /\ pc' = [pc EXCEPT ![c] =
                           IF r.panic # Nil THEN "panicked" ELSE "returned"]
    /\ UNCHANGED <<store, lock, txw, table, streamers, inTx, pageNumber,
                   entities, fetches, upserts, idx, processed>>

\* a client calls Upsert outside a transaction
CallUpsert(c, Faults) ==
    /\ pc[c] \in {"idle", "returned"}
    /\ ~inTx[c]
    /\ \E key \in Keys, value \in Values, fault \in Faults :
          /\ Free(c, key)
          /\ store' = IF fault THEN store
                      ELSE UpsertRows(store, [Key |-> key, Value |-> value])
          /\ err' = [err EXCEPT ![c] = IF fault THEN <<"db">> ELSE Nil]
    /\ op' = [op EXCEPT ![c] = "Upsert"]
    /\ result' = [result EXCEPT ![c] = <<>>]
    /\ pc' = [pc EXCEPT ![c] = "returned"]
    /\ UNCHANGED <<lock, txw, table, streamers, inTx, pageNumber,
                   entities, fetches, upserts, idx, processed>>

\* the owner of the context handed to NewStreamer calls its cancel function
Cancel(c) ==
    /\ streamers[c].Ctx = "live"
    /\ streamers' = [streamers EXCEPT ![c].Ctx = "cancelled"]
    /\ UNCHANGED <<store, lock, txw, table, pc, op, inTx, locals>>

\* Both callers have their call's result and go on to their next call: the
\* caller keeping its streamer keeps everything the instance holds, the
\* other one builds a new streamer from the same parameters, as a restarted
\* process does.
NextRound(keeping, restarting) ==
    /\ pc[keeping] = "returned" /\ pc[restarting] = "returned"
    /\ ~inTx[keeping] /\ ~inTx[restarting]
    /\ pc' = [c \in Callers |-> "idle"]
    /\ streamers' = [streamers EXCEPT ![restarting] =
                        NewStreamer([KeyValueKey |-> @.KeyValueKey,
                                     BatchSize |-> <<@.BatchSize>>,
                                     Ctx |-> <<>>])]
    /\ pageNumber' = [pageNumber EXCEPT ![restarting] = <<>>]
    /\ entities' = [entities EXCEPT ![restarting] = <<>>]
    /\ result' = [result EXCEPT ![restarting] = <<>>]
    /\ err' = [err EXCEPT ![restarting] = Nil]
    /\ fetches' = [fetches EXCEPT ![restarting] = 0]
    /\ upserts' = [upserts EXCEPT ![restarting] = 0]
    /\ idx' = [idx EXCEPT ![restarting] = 0]
    /\ processed' = [processed EXCEPT ![restarting] = <<>>]
    /\ UNCHANGED <<store, lock, txw, table, op, inTx>>

\* rows are added to or removed from the source
SourceChange ==
    /\ \E n \in 0..MaxItems : n # Len(table) /\ table' = Rows(n)
    /\ UNCHANGED <<store, lock, txw, streamers, pc, op, inTx, locals>>

\* ----------------------------------------------------------- specifications
BatchSizes == {<<>>, <<2>>}

\* values a cursor row can hold when the program starts
CursorValues ==
    {<<"1">>, <<"7">>, <<"a", "b", "c">>, <<"-", "1">>, <<"-", "0">>,
     FormatUint(MaxInt64), FormatUint(Cutoff63)}

InitLocals ==
    /\ pc = [c \in Callers |-> "idle"]
    /\ op = [c \in Callers |-> "FormList"]
    /\ inTx = [c \in Callers |-> FALSE]
    /\ pageNumber = [c \in Callers |-> <<>>]
    /\ entities = [c \in Callers |-> <<>>]
    /\ result = [c \in Callers |-> <<>>]
    /\ err = [c \in Callers |-> Nil]
    /\ fetches = [c \in Callers |-> 0]
    /\ upserts = [c \in Callers |-> 0]
    /\ idx = [c \in Callers |-> 0]
    /\ processed = [c \in Callers |-> <<>>]
    /\ lock = [k \in Keys |-> NoCaller]
    /\ txw = [c \in Callers |-> <<>>]

\* one streamer on key k1; the cursor row is absent or holds any value
Init ==
    /\ InitLocals
    /\ \E b \in BatchSizes :
          streamers = [c \in Callers |->
                          NewStreamer([KeyValueKey |-> "k1", BatchSize |-> b, Ctx |-> <<>>])]
    /\ \E n \in 0..MaxItems : table = Rows(n)
    /\ \/ store = [k \in {"k2"} |-> <<"5">>]
       \/ \E v \in CursorValues :
             store = [k \in Keys |-> IF k = "k1" THEN v ELSE <<"5">>]

Next ==
    \/ Begin("c1", Ops, BOOLEAN)
    \/ GetCurrentPage("c1", BOOLEAN)
    \/ Select("c1", BOOLEAN)
    \/ Upsert("c1", BOOLEAN)
    \/ fn("c1")
    \/ Commit("c1")
    \/ SourceChange

Spec == Init /\ [][Next]_vars

\* One caller of FormList and FormListAndProcess, no database or source
\* failure, an unchanging source; the cursor row is absent or holds a page
\* number.
InitSeq ==
    /\ InitLocals
    /\ \E b \in BatchSizes :
          streamers = [c \in Callers |->
                          NewStreamer([KeyValueKey |-> "k1", BatchSize |-> b, Ctx |-> <<>>])]
    /\ \E n \in 0..MaxItems : table = Rows(n)
    /\ \/ store = [k \in {"k2"} |-> <<"5">>]
       \/ \E v \in {<<"1">>, <<"7">>, FormatUint(MaxInt64)} :
             store = [k \in Keys |-> IF k = "k1" THEN v ELSE <<"5">>]

NextSeq ==
    \/ Begin("c1", {"FormList", "FormListAndProcess"}, BOOLEAN)
    \/ GetCurrentPage("c1", {FALSE})
    \/ Select("c1", {FALSE})
    \/ Upsert("c1", {FALSE})
    \/ fn("c1")
    \/ Commit("c1")

SpecSeq == InitSeq /\ [][NextSeq]_vars

\* the same, started with no cursor row
InitFresh == InitSeq /\ "k1" \notin DOMAIN store

SpecFresh == InitFresh /\ [][NextSeq]_vars

\* Two callers of FormList, each with or without a transaction around the
\* call, on the same cursor key or on different ones; an unchanging source.
InitConc ==
    /\ InitLocals
    /\ \E k \in Keys :
          streamers = [c \in Callers |->
                          NewStreamer([KeyValueKey |-> IF c = "c1" THEN "k1" ELSE k,
                                       BatchSize |-> <<2>>, Ctx |-> <<>>])]
    /\ \E n \in 0..MaxItems : table = Rows(n)
    /\ \/ store = [k \in {"k2"} |-> <<"5">>]
       \/ store = [k \in Keys |-> IF k = "k1" THEN <<"1">> ELSE <<"5">>]

NextConc ==
    \E c \in Callers :
       \/ Begin(c, {"FormList"}, BOOLEAN)
       \/ GetCurrentPage(c, BOOLEAN)
       \/ Select(c, BOOLEAN)
       \/ Upsert(c, BOOLEAN)
       \/ Commit(c)

SpecConc == InitConc /\ [][NextConc]_vars

\* One caller of FormListAndProcess whose streamer was given a context that
\* can be cancelled at any moment, or no context; no database or source
\* failure, an unchanging source.
InitCtx ==
    /\ InitLocals
    /\ \E b \in BatchSizes, x \in {<<>>, <<"live">>} :
          streamers = [c \in Callers |->
                          NewStreamer([KeyValueKey |-> "k1", BatchSize |-> b,
                                       Ctx |-> x])]
    /\ \E n \in 0..MaxItems : table = Rows(n)
    /\ store = [k \in {"k2"} |-> <<"5">>]

NextCtx ==
    \/ Begin("c1", {"FormListAndProcess"}, BOOLEAN)
    \/ GetCurrentPage("c1", {FALSE})
    \/ Select("c1", {FALSE})
    \/ Upsert("c1", {FALSE})
    \/ fn("c1")
    \/ Commit("c1")
    \/ Cancel("c1")

SpecCtx == InitCtx /\ [][NextCtx]_vars

\* Two runs of the same sequence of calls side by side, on the same source
\* with the same batch size and cursor rows k1 and k2 holding the same value:
\* c1 makes every call on one streamer, c2 makes each call on a newly built
\* one. In each round c1 calls, then c2 calls the same method.
InitPair ==
    /\ InitLocals
    /\ \E b \in BatchSizes :
          streamers = [c \in Callers |->
                          NewStreamer([KeyValueKey |-> IF c = "c1" THEN "k1" ELSE "k2",
                                       BatchSize |-> b, Ctx |-> <<>>])]
    /\ \E n \in 0..MaxItems : table = Rows(n)
    /\ \/ store = <<>>
       \/ \E v \in {<<"2">>, <<"7">>} : store = [k \in Keys |-> v]

NextPair ==
    \/ pc["c1"] = "idle" /\ pc["c2"] = "idle"
          /\ Begin("c1", {"FormList", "FormListAndProcess"}, BOOLEAN)
    \/ pc["c1"] = "returned" /\ ~inTx["c1"] /\ pc["c2"] = "idle"
          /\ Begin("c2", {op["c1"]}, BOOLEAN)
    \/ \E c \in Callers :
          \/ GetCurrentPage(c, {FALSE})
          \/ Select(c, {FALSE})
          \/ Upsert(c, {FALSE})
          \/ fn(c)
          \/ Commit(c)
    \/ NextRound("c1", "c2")

SpecPair == InitPair /\ [][NextPair]_vars

\* One caller of all four methods, no database or source failure, an
\* unchanging source; the cursor row is absent or holds any value.
NextOps ==
    \/ Begin("c1", Ops, BOOLEAN)
    \/ GetCurrentPage("c1", {FALSE})
    \/ Select("c1", {FALSE})
    \/ Upsert("c1", {FALSE})
    \/ fn("c1")
    \/ Commit("c1")

SpecOps == Init /\ [][NextOps]_vars

\* One client of the key-value store calling Get, LockingGet, MustGet,
\* MustLockingGet and Upsert on two keys, each statement on its own; any
\* statement can fail in the database. Each key has no row or the value "0".
InitKV ==
    /\ InitLocals
    /\ streamers = [c \in Callers |->
                       NewStreamer([KeyValueKey |-> "k1", BatchSize |-> <<>>,
                                    Ctx |-> <<>>])]
    /\ table = Rows(0)
    /\ \E ks \in SUBSET Keys : store = [k \in ks |-> <<"0">>]

NextKV ==
    \/ CallGet("c1", BOOLEAN)
    \/ CallMustGet("c1", BOOLEAN)
    \/ CallUpsert("c1", BOOLEAN)

SpecKV == InitKV /\ [][NextKV]_vars

\* page numbers GetCurrentPage can return, up to the largest
PageNumbers ==
    {Zero, One, <<9>>, <<9, 9>>,
     <<9,2,2,3,3,7,2,0,3,6,8,5,4,7,7,5,8,0,6>>, MaxInt64}

\* One caller whose FormList has resolved page number p from the cursor row
\* and has been given a non-empty page for it by its source, any Streamable
\* that has elements at page p; the calls that follow read the table.
InitCodec ==
    /\ \E b \in BatchSizes :
          streamers = [c \in Callers |->
                          NewStreamer([KeyValueKey |-> "k1", BatchSize |-> b,
                                       Ctx |-> <<>>])]
    /\ \E n \in 0..MaxItems : table = Rows(n)
    /\ \E p \in PageNumbers, tx \in BOOLEAN :
          /\ store = [k \in Keys |-> IF k = "k1" THEN FormatUint(p) ELSE <<"5">>]
          /\ pageNumber = [c \in Callers |-> IF c = "c1" THEN p ELSE <<>>]
          /\ inTx = [c \in Callers |-> c = "c1" /\ tx]
          /\ lock = [k \in Keys |-> IF k = "k1" /\ tx THEN "c1" ELSE NoCaller]
    /\ pc = [c \in Callers |-> IF c = "c1" THEN "Upsert" ELSE "idle"]
    /\ op = [c \in Callers |-> "FormList"]
    /\ entities = [c \in Callers |-> IF c = "c1" THEN <<1>> ELSE <<>>]
    /\ fetches = [c \in Callers |-> IF c = "c1" THEN 1 ELSE 0]
    /\ result = [c \in Callers |-> <<>>]
    /\ err = [c \in Callers |-> Nil]
    /\ upserts = [c \in Callers |-> 0]
    /\ idx = [c \in Callers |-> 0]
    /\ processed = [c \in Callers |-> <<>>]
    /\ txw = [c \in Callers |-> <<>>]

SpecCodec == InitCodec /\ [][NextSeq]_vars

\* Two callers of FormList as in SpecConc, started with the cursor row of k1
\* absent or holding a page number from 0 to the number of non-empty pages.
InitRange ==
    /\ InitConc
    /\ "k1" \in DOMAIN store =>
          \E i \in 0..((Len(table) + 1) \div 2) : store["k1"] = FormatUint(FromNat(i))

SpecRange == InitRange /\ [][NextConc]_vars

\* ------------------------------------------------------------------- claims
\* the cursor value caller c's statements see, as a set: {} when no row exists
Cursor(c) ==
    LET key == streamers[c].KeyValueKey
    IN  IF key \in DOMAIN View(c) THEN {View(c)[key]} ELSE {}

\* caller c's FormList has fetched a non-empty page and has not upserted yet
AboutToAdvance(c) == pc[c] = "Upsert" /\ entities[c] # <<>>

\* caller c's FormList returned the page it read and advanced the cursor
Advanced(c) ==
    /\ op[c] = "FormList"
    /\ pc[c] = "returned"
    /\ err[c] = Nil
    /\ result[c] # <<>>

\* C1: two FormList callers sharing a cursor key never both read page N and
\* both advance from N: while the N+1 that one caller wrote on advancing from
\* N is still the cursor value, the other caller is never between its read
\* and its Upsert with the same page number N and a fetched page to advance on.
C1_ExactlyOneAdvancesFromN ==
    \A a \in Callers : \A b \in Callers \ {a} :
       ( /\ streamers[a].KeyValueKey = streamers[b].KeyValueKey
         /\ Advanced(a)
         /\ Cursor(a) = {FormatUint(AddOneU64(pageNumber[a]))}
         /\ AboutToAdvance(b) )
       => pageNumber[b] # pageNumber[a]

\* C6: a single FormList call fetches from the source at most twice and
\* performs at most two Upserts, whatever the other callers do.
C6_AtMostOneRetry ==
    \A c \in Callers : fetches[c] <= 2 /\ upserts[c] <= 2

\* the decimal numeral of a natural number, as a string
RECURSIVE Decimal(_)
Decimal(n) ==
    LET d == <<"0", "1", "2", "3", "4", "5", "6", "7", "8", "9">>[(n % 10) + 1]
    IN  IF n < 10 THEN <<d>> ELSE Decimal(n \div 10) \o <<d>>

\* number of non-empty pages of the source read by streamer s
NumPages(s) == (Len(table) + s.BatchSize - 1) \div s.BatchSize

\* the elements of page p (a natural number) of the source read by streamer s
PageElems(s, p) ==
    LET first == p * s.BatchSize
        n == IF Len(table) <= first THEN 0
             ELSE IF Len(table) - first < s.BatchSize THEN Len(table) - first
             ELSE s.BatchSize
    IN  [i \in 1..n |-> table[first + i]]

\* FormList (called directly or by FormListAndProcess) has returned
FormListDone(c) ==
    /\ op[c] \in {"FormList", "FormListAndProcess"}
    /\ pc[c] \in {"returned", "fn"}

\* the error FormList returned
FormListErr(c) ==
    IF op[c] = "FormList" THEN err[c]
    ELSE IF err[c] # Nil /\ err[c][1] = "failed to form a list of entities"
    THEN Tail(err[c])
    ELSE Nil

\* the page number that follows p in the cycle 0, 1, ..., N, 0, ...
NextInCycle(s, p) == IF p = NumPages(s) THEN 0 ELSE p + 1

C2_Returned ==
    (FormListDone("c1") /\ table # <<>>) =>
        /\ FormListErr("c1") = Nil
        /\ result["c1"] # <<>>
        /\ ToNat(pageNumber["c1"]) < NumPages(streamers["c1"])
        /\ result["c1"] = PageElems(streamers["c1"], ToNat(pageNumber["c1"]))

C2_Resolved ==
    (table # <<>> /\ pc["c1"] = "LockingGet" /\ pc'["c1"] # "LockingGet") =>
        /\ pc'["c1"] = "Select"
        /\ pageNumber'["c1"] =
              IF pageNumber["c1"] = <<>> THEN Zero
              ELSE FromNat(NextInCycle(streamers["c1"], ToNat(pageNumber["c1"])))

\* C2: with one caller, an unchanging source of N >= 1 non-empty pages and a
\* cursor that starts absent, the page numbers FormList resolves go
\* 0, 1, ..., N, 0, 1, ... and every call returns the non-empty page of the
\* number it resolved last: page 0, ..., page N-1, page 0, ...
C2_Wraparound == []C2_Returned /\ [][C2_Resolved]_vars

\* a call wrapped around: resolved N, found it empty, restarted and returned
C2_Witness ==
    /\ FormListDone("c1")
    /\ fetches["c1"] = 2
    /\ NumPages(streamers["c1"]) = 2
    /\ pageNumber["c1"] = Zero
    /\ result["c1"] = <<1, 2>>

\* C3: a FormList call that finds the cursor at p > 0 with page p empty and
\* page 0 non-empty writes "0", restarts, and returns the elements of page 0
\* with the cursor left at "1": after the reset the cursor reads "0", and a
\* call that fetched a second time returns page 0 after exactly two fetches
\* and two Upserts.
C3_ResetAndRerun ==
    /\ (FormListDone("c1") /\ entities["c1"] = <<>>) =>
          (pageNumber["c1"] = Zero /\ table = <<>>)
    /\ (pc["c1"] = "Upsert" /\ entities["c1"] = <<>>) =>
          (pageNumber["c1"] # Zero /\ upserts["c1"] = 0)
    /\ (pc["c1"] = "LockingGet" /\ upserts["c1"] > 0) =>
          (upserts["c1"] = 1 /\ Cursor("c1") = {<<"0">>})
    /\ (FormListDone("c1") /\ upserts["c1"] > 1) =>
          /\ fetches["c1"] = 2
          /\ upserts["c1"] = 2
          /\ FormListErr("c1") = Nil
          /\ result["c1"] # <<>>
          /\ result["c1"] = PageElems(streamers["c1"], 0)
          /\ (pc["c1"] = "returned" => Cursor("c1") = {<<"1">>})

\* FormList returned after a reset and a restart
C3_Witness ==
    /\ op["c1"] = "FormList"
    /\ pc["c1"] = "returned"
    /\ upserts["c1"] = 2
    /\ result["c1"] = <<1>>
    /\ Cursor("c1") = {<<"1">>}

\* C4: when FormList fetched a non-empty page for the page number p it
\* resolved and its Upsert did not fail, it returns exactly the fetched
\* elements and the cursor it leaves is the decimal string of p+1.
C4_AdvanceReturnsFetchedPage ==
    \A c \in Callers :
       (FormListDone(c) /\ entities[c] # <<>> /\ FormListErr(c) = Nil) =>
          /\ result[c] = entities[c]
          /\ Cursor(c) = {Decimal(ToNat(pageNumber[c]) + 1)}

\* FormList returned page 1 and left the cursor at "2"
C4_Witness ==
    /\ op["c1"] = "FormList"
    /\ pc["c1"] = "returned"
    /\ err["c1"] = Nil
    /\ pageNumber["c1"] = One
    /\ result["c1"] = <<3>>
    /\ Cursor("c1") = {<<"2">>}

\* the step in which caller c's FormList receives an empty page for page 0
EmptyFirstPage(c) ==
    /\ pc[c] = "Select"
    /\ op[c] # "Select"
    /\ pageNumber[c] = Zero
    /\ pc'[c] # "Select"
    /\ entities'[c] = <<>>
    /\ ~(\E i \in 1..Len(err'[c]) : err'[c][i] = "failed to select entities")

C5_Step ==
    \A c \in Callers :
       EmptyFirstPage(c) =>
          /\ pc'[c] = "returned"
          /\ result'[c] = <<>>
          /\ err'[c] = Nil
          /\ upserts'[c] = upserts[c]
          /\ store' = store
          /\ txw' = txw

\* C5: when the current page is 0 and the source returns an empty page,
\* FormList returns an empty result and no error and performs no Upsert: the
\* rows are as they were, and FormList never stands before an Upsert with
\* page number 0 and nothing fetched.
C5_EmptySourceLeavesCursor ==
    /\ [][C5_Step]_vars
    /\ [](\A c \in Callers :
             pc[c] = "Upsert" => ~(pageNumber[c] = Zero /\ entities[c] = <<>>))

\* FormList returned empty from page 0 with the cursor row still absent
C5_Witness ==
    /\ op["c1"] = "FormList"
    /\ pc["c1"] = "returned"
    /\ fetches["c1"] = 1
    /\ upserts["c1"] = 0
    /\ pageNumber["c1"] = Zero
    /\ result["c1"] = <<>>
    /\ err["c1"] = Nil
    /\ Cursor("c1") = {}

\* a string that denotes a non-negative integer in base 10
ValidCursor(v) ==
    LET body == IF v # <<>> /\ v[1] \in {"+", "-"} THEN Tail(v) ELSE v
    IN  /\ body # <<>>
        /\ \A i \in 1..Len(body) :
              body[i] \in {"0", "1", "2", "3", "4", "5", "6", "7", "8", "9"}
        /\ v[1] = "-" => \A i \in 1..Len(body) : body[i] = "0"

C7_Step ==
    \A c \in Callers :
       ( /\ pc[c] = "LockingGet"
         /\ pc'[c] # "LockingGet"
         /\ \E v \in Cursor(c) : ~ValidCursor(v) )
       => /\ pc'[c] = "returned"
          /\ err'[c] # Nil
          /\ result'[c] = <<>>
          /\ fetches'[c] = fetches[c]
          /\ store' = store
          /\ txw' = txw

\* C7: when the stored cursor is not a non-negative base-10 integer,
\* GetCurrentPage returns an error, FormList returns an error without
\* fetching from the source, and the stored value is left as it is.
C7_CorruptCursorFails == [][C7_Step]_vars

\* FormList failed on the stored cursor "-1" without fetching
C7_Witness ==
    /\ op["c1"] = "FormList"
    /\ pc["c1"] = "returned"
    /\ err["c1"] = <<"failed to get current page number",
                     "cursor cannot be negative">>
    /\ fetches["c1"] = 0
    /\ Cursor("c1") = {<<"-", "1">>}

C8_Step ==
    \A c \in Callers :
       (pc[c] = "Upsert" /\ pc'[c] # "Upsert") =>
          /\ Cursor(c)' = Cursor(c) => err'[c] # Nil
          /\ err'[c] # Nil =>
                /\ pc'[c] = "returned"
                /\ result'[c] = <<>>
                /\ processed'[c] = <<>>
                /\ Cursor(c)' = Cursor(c)
                /\ store' = store
                /\ txw' = txw

\* C8: when an Upsert inside FormList fails (the advance or the reset),
\* FormList returns an error and no elements, and the stored cursor keeps
\* the value it had; an Upsert step that leaves the cursor as it was is
\* always reported as an error.
C8_UpsertFailureDiscardsPage == [][C8_Step]_vars

\* the advance failed after a non-empty page was fetched
C8_Witness ==
    /\ op["c1"] = "FormList"
    /\ pc["c1"] = "returned"
    /\ entities["c1"] = <<1, 2>>
    /\ result["c1"] = <<>>
    /\ err["c1"] = <<"failed to update last processed entities", "db">>
    /\ Cursor("c1") = {}

\* FormListAndProcess returned because fn failed
HandlerFailed(c) ==
    /\ op[c] = "FormListAndProcess"
    /\ pc[c] = "returned"
    /\ err[c] # Nil
    /\ err[c][1] = "failed to process an entity"

C9_Order ==
    \A c \in Callers :
       op[c] = "FormListAndProcess" =>
          /\ Len(processed[c]) <= Len(result[c])
          /\ processed[c] = SubSeq(result[c], 1, Len(processed[c]))
          /\ pc[c] \in {"LockingGet", "Select", "Upsert"} => processed[c] = <<>>
          /\ pc[c] = "fn" =>
                (err[c] = Nil /\ idx[c] <= Len(result[c])
                   /\ Len(processed[c]) = idx[c] - 1)
          /\ (pc[c] = "returned" /\ err[c] = Nil) => processed[c] = result[c]
          /\ HandlerFailed(c) => (idx[c] >= 1 /\ Len(processed[c]) = idx[c])
          /\ FormListErr(c) # Nil => (pc[c] = "returned" /\ processed[c] = <<>>)
          /\ (err[c] # Nil) => pc[c] = "returned"

C9_Stop ==
    \A c \in Callers :
       (pc[c] = "returned" /\ pc'[c] = "returned") => processed'[c] = processed[c]

\* C9: FormListAndProcess invokes fn on the elements FormList returned one
\* at a time in page order; when fn fails on an element it returns an error
\* at once and fn is invoked on no later element of the page; when FormList
\* fails fn is invoked on no element.
C9_HandlerInOrderStopsAtFailure == []C9_Order /\ [][C9_Stop]_vars

\* fn failed on the first of two elements
C9_Witness ==
    /\ HandlerFailed("c1")
    /\ result["c1"] = <<1, 2>>
    /\ processed["c1"] = <<1>>

C10_Kept ==
    HandlerFailed("c1") =>
       /\ upserts["c1"] >= 1
       /\ Cursor("c1") = {Decimal(ToNat(pageNumber["c1"]) + 1)}

C10_Stays ==
    HandlerFailed("c1") => Cursor("c1")' = Cursor("c1")

C10_NextCall ==
    ( /\ table # <<>>
      /\ pc["c1"] = "LockingGet"
      /\ fetches["c1"] = 0
      /\ pageNumber["c1"] # <<>>
      /\ pc'["c1"] # "LockingGet" )
    => pageNumber'["c1"] = FromNat(ToNat(pageNumber["c1"]) + 1)

\* C10: the cursor advance is not undone when fn fails: FormListAndProcess
\* that fetched page p and returned fn's error leaves the cursor at p+1, it
\* stays p+1 until the next call, and the next call resolves page p+1.
C10_NoRollbackOnHandlerFailure ==
    []C10_Kept /\ [][C10_Stays /\ C10_NextCall]_vars

\* fn failed on an element of page 1 and the cursor reads "2"
C10_Witness ==
    /\ HandlerFailed("c1")
    /\ pageNumber["c1"] = One
    /\ processed["c1"] = <<3>>
    /\ Cursor("c1") = {<<"2">>}

\* C11: once the streamer's execution context is cancelled, no handler
\* invocation starts: in a state whose context is cancelled, no step of
\* FormListAndProcess invokes fn on a further element.
C11_NoHandlerAfterCancel ==
    [][\A c \in Callers :
          streamers[c].Ctx = "cancelled" =>
             Len(processed'[c]) <= Len(processed[c])]_vars

\* C12: the streamer keeps no cursor state in memory. After the same number
\* of sequential calls, the caller that made them all on one instance and the
\* caller that made each on a newly built instance have resolved the same
\* page, got the same page returned and hold the same stored cursor value.
C12_FreshInstanceSameRun ==
    (pc["c1"] = "returned" /\ pc["c2"] = "returned") =>
        /\ pageNumber["c1"] = pageNumber["c2"]
        /\ result["c1"] = result["c2"]
        /\ Cursor("c1") = Cursor("c2")
        /\ (op["c1"] = "FormList" => err["c1"] = err["c2"])

\* both callers returned page 1 of a three-row source read in pages of two:
\* their second call or a later one, which c1 made on the instance it had
\* used before and c2 on a new one
C12_Witness ==
    /\ pc["c1"] = "returned" /\ pc["c2"] = "returned"
    /\ result["c1"] = <<3>> /\ result["c2"] = <<3>>
    /\ Cursor("c1") = {<<"2">>} /\ Cursor("c2") = {<<"2">>}
    /\ store = [k \in Keys |-> <<"2">>]

\* C13: GetCurrentPage on a cursor key that has no row returns 0 with no
\* error and writes no row: the key is still absent afterwards.
C13_Step ==
    (pc["c1"] = "LockingGet" /\ op["c1"] = "GetCurrentPage"
        /\ Cursor("c1") = {} /\ pc'["c1"] # "LockingGet") =>
        /\ pc'["c1"] = "returned"
        /\ pageNumber'["c1"] = Zero
        /\ err'["c1"] = Nil
        /\ store' = store /\ txw' = txw
        /\ Cursor("c1")' = {}

C13_AbsentCursorIsPageZero == [][C13_Step]_vars

\* GetCurrentPage has returned page 0 and the key has no row
C13_Witness ==
    /\ pc["c1"] = "returned" /\ op["c1"] = "GetCurrentPage"
    /\ pageNumber["c1"] = Zero /\ err["c1"] = Nil
    /\ "k1" \notin DOMAIN store /\ Cursor("c1") = {}

\* C14: Upsert is insert-or-overwrite and idempotent. For every row {k, v},
\* the store after Upsert holds v under k whether or not k had a row, every
\* other row as before, and a second Upsert of {k, v} changes nothing; and
\* every successful Upsert call leaves the store in such a state.
C14_Algebra ==
    \A key \in Keys, value \in Values :
       LET kv == [Key |-> key, Value |-> value]
           s1 == UpsertRows(store, kv)
           s2 == UpsertRows(s1, kv)
       IN  /\ DOMAIN s1 = DOMAIN store \cup {key}
           /\ s1[key] = value
           /\ \A k \in DOMAIN store \ {key} : s1[k] = store[k]
           /\ s2 = s1

C14_Step ==
    (op'["c1"] = "Upsert" /\ err'["c1"] = Nil) =>
        \E key \in Keys, value \in Values :
           /\ DOMAIN store' = DOMAIN store \cup {key}
           /\ store'[key] = value
           /\ \A k \in DOMAIN store \ {key} : store'[k] = store[k]

C14_UpsertIdempotent == []C14_Algebra /\ [][C14_Step]_vars

\* Upsert calls have given both keys the value "5", which no row held at the
\* start
C14_Witness ==
    /\ op["c1"] = "Upsert" /\ pc["c1"] = "returned" /\ err["c1"] = Nil
    /\ store = [k \in Keys |-> <<"5">>]

\* C15: Get and LockingGet of a key with no row return nil and no error; a
\* failure of the database is returned as an error and never as an absent
\* result; a key with a row is returned with its value. A call that returned
\* nil and no error found some key without a row.
C15_Function ==
    \A key \in Keys, fault \in BOOLEAN :
       \A r \in {Get(store, key, fault), LockingGet(store, key, fault)} :
          /\ (key \notin DOMAIN store /\ ~fault) => (r.kv = <<>> /\ r.err = Nil)
          /\ fault => r.err = <<"db">>
          /\ (key \in DOMAIN store /\ ~fault) =>
                (r.kv = <<[Key |-> key, Value |-> store[key]]>> /\ r.err = Nil)

C15_Step ==
    (op'["c1"] \in {"Get", "LockingGet"}
        /\ result'["c1"] = <<>> /\ err'["c1"] = Nil) =>
        \E key \in Keys : key \notin DOMAIN store

C15_AbsentIsNilFailureIsError == []C15_Function /\ [][C15_Step]_vars

\* Get or LockingGet returned nil and no error while no key had a row
C15_Witness ==
    /\ op["c1"] \in {"Get", "LockingGet"} /\ pc["c1"] = "returned"
    /\ result["c1"] = <<>> /\ err["c1"] = Nil
    /\ store = <<>>

\* C16: MustGet and MustLockingGet panic exactly when Get / LockingGet
\* returns an error, and otherwise return what Get / LockingGet returns; for
\* a key with no row they return nil without panicking.
C16_Function ==
    \A key \in Keys, fault \in BOOLEAN :
       LET g == Get(store, key, fault)
           l == LockingGet(store, key, fault)
           mg == MustGet(store, key, fault)
           ml == MustLockingGet(store, key, fault)
       IN  /\ (mg.panic # Nil) <=> (g.err # Nil)
           /\ (ml.panic # Nil) <=> (l.err # Nil)
           /\ mg.panic = Nil => mg.kv = g.kv
           /\ ml.panic = Nil => ml.kv = l.kv
           /\ (key \notin DOMAIN store /\ ~fault) =>
                 /\ mg.panic = Nil /\ mg.kv = <<>>
                 /\ ml.panic = Nil /\ ml.kv = <<>>

C16_Step ==
    op'["c1"] \in {"MustGet", "MustLockingGet"} =>
        /\ (pc'["c1"] = "panicked") <=> (err'["c1"] # Nil)
        /\ pc'["c1"] = "panicked" => "db" \in {err'["c1"][i] : i \in DOMAIN err'["c1"]}

C16_MustPanicsOnErrorOnly == []C16_Function /\ [][C16_Step]_vars

\* MustGet or MustLockingGet returned nil while no key had a row
C16_Witness ==
    /\ op["c1"] \in {"MustGet", "MustLockingGet"} /\ pc["c1"] = "returned"
    /\ result["c1"] = <<>> /\ err["c1"] = Nil
    /\ store = <<>>

\* C17: if the source fails while FormList fetches the current page (the
\* page has elements and the fetch yields none), FormList returns an error
\* naming the failed selection and no elements, performs no Upsert and leaves
\* the stored cursor as it is: the cursor still encodes the page number of
\* the failed fetch, which the next call therefore retries.
C17_Step ==
    ( /\ pc["c1"] = "Select"
      /\ op["c1"] \in {"FormList", "FormListAndProcess"}
      /\ fetches'["c1"] = fetches["c1"] + 1
      /\ Len(pageNumber["c1"]) <= 2
      /\ PageElems(streamers["c1"], ToNat(pageNumber["c1"])) # <<>>
      /\ entities'["c1"] = <<>> )
    => /\ pc'["c1"] = "returned"
       /\ result'["c1"] = <<>>
       /\ FormListErr("c1")' = <<"failed to select entities", "source">>
       /\ upserts'["c1"] = upserts["c1"]
       /\ store' = store /\ txw' = txw
       /\ Cursor("c1")' = Cursor("c1")
       /\ \/ Cursor("c1")' = {} /\ pageNumber'["c1"] = Zero
          \/ \E v \in Cursor("c1")' :
                /\ ParseInt(v).err = "nil"
                /\ ParseInt(v).mag = pageNumber'["c1"]

C18_Range ==
    \A c \in Callers :
       streamers[c].KeyValueKey = "k1" =>
          \A v \in Cursor(c) :
             \E i \in 0..NumPages(streamers[c]) : v = Decimal(i)

C18_Change ==
    \A c \in Callers :
       ( /\ streamers[c].KeyValueKey = "k1"
         /\ pc[c] = "Upsert" /\ upserts'[c] = upserts[c] + 1
         /\ Cursor(c)' # Cursor(c) )
       => \/ Cursor(c)' = {<<"0">>}
          \/ \E p \in 0..(NumPages(streamers[c]) - 1) :
                /\ Cursor(c)' = {Decimal(p + 1)}
                /\ PageElems(streamers[c], p) # <<>>
                /\ Cursor(c) = IF p = 0 /\ Cursor(c) = {} THEN {}
                                ELSE {Decimal(p)}

C18_CursorRange == []C18_Range /\ [][C18_Change]_vars

\* C19: write/read consistency of the cursor encoding. Every value FormList
\* writes to the cursor row is a value GetCurrentPage accepts, for every page
\* number GetCurrentPage can return, the largest included: the value parses
\* as a non-negative page number, and the GetCurrentPage of the next call
\* returns no error.
C19_Write ==
    (pc["c1"] = "Upsert" /\ upserts'["c1"] = upserts["c1"] + 1) =>
        \A v \in Cursor("c1")' :
           /\ ParseInt(v).err = "nil"
           /\ ~ParseInt(v).neg

C19_Read ==
    (pc["c1"] = "LockingGet" /\ pc'["c1"] # "LockingGet") =>
        FormListErr("c1")' = Nil

C19_WrittenCursorIsReadable == [][C19_Write /\ C19_Read]_vars

\* caller c takes the step: something of its call changes
Acts(c) ==
    <<pc[c], op[c], inTx[c], pageNumber[c], entities[c], result[c], err[c],
      fetches[c], upserts[c], idx[c], processed[c]>>' #
    <<pc[c], op[c], inTx[c], pageNumber[c], entities[c], result[c], err[c],
      fetches[c], upserts[c], idx[c], processed[c]>>

\* C20: FormList, FormListAndProcess and GetCurrentPage read and write only
\* the row of the streamer's cursor key: a step of a caller leaves every row
\* with another key as it was, committed or pending, and takes no lock on
\* it; a step of Select changes no row and no lock at all.
C20_Step ==
    \A c \in Callers :
       Acts(c) =>
          /\ \A k \in Keys \ {streamers[c].KeyValueKey} :
                /\ (k \in DOMAIN store') = (k \in DOMAIN store)
                /\ k \in DOMAIN store => store'[k] = store[k]
                /\ k \notin DOMAIN txw'[c]
                /\ lock'[k] = lock[k]
          /\ (op[c] = "Select" /\ pc[c] = "Select") =>
                (store' = store /\ txw' = txw /\ lock' = lock)

C20_OnlyTheCursorRow == [][C20_Step]_vars

\* FormList has written the cursor row of k1 and the row of k2 holds what it
\* held at the start
C20_Witness ==
    /\ op["c1"] = "FormList" /\ pc["c1"] = "returned" /\ ~inTx["c1"]
    /\ upserts["c1"] = 2
    /\ store = [k \in Keys |-> IF k = "k1" THEN <<"1">> ELSE <<"5">>]

====
